---------------------------- MODULE Spec2Model ----------------------------
(***************************************************************************)
(* Model of the Aqua protocol client of package api (src/api/api.go):      *)
(* NewAPI, GetApiURL, fetch, the four Get* operations and                  *)
(* Timestamp.UnmarshalJSON.                                                *)
(*                                                                         *)
(* Strings are sequences of lexemes.  A lexeme is either a single          *)
(* character ("x", " ", "%", "2", ...) or one of the string literals of    *)
(* the source kept whole ("Bearer", "/data_accounting/get_revision/").     *)
(* Go's + on strings is \o on these sequences.                             *)
(***************************************************************************)
EXTENDS Integers, Sequences, FiniteSets, TLC

VARIABLES
    client,     \* the *AquaProtocol returned by NewAPI, or Nil
    newErr,     \* the error of the last NewAPI call, or Nil
    given,      \* the endpoint and token the caller gave to NewAPI
    pc,         \* pc[c]: position of caller c inside its operation
    call,       \* call[c]: the operation and arguments caller c invoked
    u,          \* u[c]: the *url.URL local of the operation
    resp,       \* resp[c]: the *http.Response local of the operation
    ret,        \* ret[c]: how the operation ended (value, error or panic)
    stages,     \* stages[c]: the stages the operation has run, in order
    wire,       \* wire[c]: the requests handed to apiClient.Do by c's call
    decoderIn,  \* decoderIn[c]: the bodies handed to the JSON decoder
    ncalls,     \* number of operations invoked so far
    aborted,    \* the process has died of a panic nobody recovered
    tsPc,       \* position of the Timestamp round trip
    tsBytes,    \* the bytes given to Timestamp.UnmarshalJSON
    tsTime,     \* p.Time of the target Timestamp
    tsErr,      \* the error UnmarshalJSON returned, or Nil
    tsOut       \* the target formatted back with the layout

clientVars == <<client, newErr, given, pc, call, u, resp, ret, stages, wire, decoderIn, ncalls,
               aborted>>
tsVars == <<tsPc, tsBytes, tsTime, tsErr, tsOut>>
vars == <<client, newErr, given, pc, call, u, resp, ret, stages, wire, decoderIn, ncalls,
          aborted, tsPc, tsBytes, tsTime, tsErr, tsOut>>

\* Go's nil, for pointers, slices and errors alike
Nil == [type |-> "nil"]

-----------------------------------------------------------------------------
(* Bounds *)

\* operations invoked in one behaviour (over all callers)
MaxCalls == 2
\* fractional-second digits in the timestamp inputs
MaxFracDigits == 1

-----------------------------------------------------------------------------
(* package time, as far as layout "20060102150405" uses it *)

Digits == {"0", "1", "2", "3", "4", "5", "6", "7", "8", "9"}
DigitChars == <<"0", "1", "2", "3", "4", "5", "6", "7", "8", "9">>
DigitVal(ch) == (CHOOSE n \in 1..10 : DigitChars[n] = ch) - 1

Drop(s, n) == SubSeq(s, n + 1, Len(s))
Take(s, n) == SubSeq(s, 1, n)

\* time.isDigit(s, i), i counted from 0
isDigit(s, i) == i + 1 <= Len(s) /\ s[i + 1] \in Digits

AllDigits(s) == \A i \in 1..Len(s) : s[i] \in Digits

RECURSIVE Num(_)
\* the decimal number a digit string spells
Num(s) == IF Len(s) = 0 THEN 0
          ELSE Num(Take(s, Len(s) - 1)) * 10 + DigitVal(s[Len(s)])

RECURSIVE Pow10(_)
Pow10(n) == IF n = 0 THEN 1 ELSE 10 * Pow10(n - 1)

\* time.getnum: one or two digits; fixed demands two
getnum(s, fixed) ==
    IF ~isDigit(s, 0) THEN [n |-> 0, rest |-> s, err |-> TRUE]
    ELSE IF ~isDigit(s, 1)
         THEN IF fixed THEN [n |-> 0, rest |-> s, err |-> TRUE]
              ELSE [n |-> DigitVal(s[1]), rest |-> Drop(s, 1), err |-> FALSE]
         ELSE [n |-> DigitVal(s[1]) * 10 + DigitVal(s[2]), rest |-> Drop(s, 2),
               err |-> FALSE]

\* case stdLongYear of time.parse: exactly four characters, all digits
getyear(s) ==
    IF Len(s) < 4 \/ ~isDigit(s, 0) THEN [n |-> 0, rest |-> s, err |-> TRUE]
    ELSE IF ~AllDigits(Take(s, 4)) THEN [n |-> 0, rest |-> Drop(s, 4), err |-> TRUE]
         ELSE [n |-> Num(Take(s, 4)), rest |-> Drop(s, 4), err |-> FALSE]

isLeap(year) == year % 4 = 0 /\ (year % 100 # 0 \/ year % 400 = 0)

daysIn(month, year) ==
    IF month = 2 THEN (IF isLeap(year) THEN 29 ELSE 28)
    ELSE IF month \in {4, 6, 9, 11} THEN 30 ELSE 31

\* number of characters of the fractional second that follows the seconds
\* field: the separator and the run of digits after it (0 when there is none)
RECURSIVE DigitRun(_, _)
DigitRun(s, n) == IF isDigit(s, n) THEN DigitRun(s, n + 1) ELSE n

fracLen(s) ==
    IF Len(s) >= 2 /\ s[1] = "." /\ isDigit(s, 1) THEN DigitRun(s, 2) ELSE 0

\* time.parseNanoseconds(value, nbytes): at most nine digits are kept
parseNanoseconds(s, nbytes) ==
    LET nb == IF nbytes > 10 THEN 10 ELSE nbytes
    IN  Num(SubSeq(s, 2, nb)) * Pow10(10 - nb)

ParseError == [type |-> "time.ParseError"]
ZeroTime == [year |-> 1, month |-> 1, day |-> 1, hour |-> 0, min |-> 0, sec |-> 0,
             nsec |-> 0, loc |-> "UTC"]

\* the state of time.Parse's loop over the layout: the fields read so far,
\* the input left, and whether the parse has failed
parseStart(value) ==
    [year |-> 0, month |-> 0, day |-> 0, hour |-> 0, min |-> 0, sec |-> 0, nsec |-> 0,
     value |-> value, bad |-> FALSE]

\* case stdLongYear
parseYear(p) ==
    LET y == getyear(p.value)
    IN  IF p.bad \/ y.err THEN [p EXCEPT !.bad = TRUE]
        ELSE [p EXCEPT !.year = y.n, !.value = y.rest]

\* case stdZeroMonth
parseMonth(p) ==
    LET m == getnum(p.value, TRUE)
    IN  IF p.bad \/ m.err \/ m.n <= 0 \/ 12 < m.n THEN [p EXCEPT !.bad = TRUE]
        ELSE [p EXCEPT !.month = m.n, !.value = m.rest]

\* case stdZeroDay: any two digits here, the day is checked at the end
parseDay(p) ==
    LET d == getnum(p.value, TRUE)
    IN  IF p.bad \/ d.err THEN [p EXCEPT !.bad = TRUE]
        ELSE [p EXCEPT !.day = d.n, !.value = d.rest]

\* case stdHour: getnum is not told to demand two digits
parseHour(p) ==
    LET h == getnum(p.value, FALSE)
    IN  IF p.bad \/ h.err \/ 24 <= h.n THEN [p EXCEPT !.bad = TRUE]
        ELSE [p EXCEPT !.hour = h.n, !.value = h.rest]

\* case stdZeroMinute
parseMinute(p) ==
    LET m == getnum(p.value, TRUE)
    IN  IF p.bad \/ m.err \/ 60 <= m.n THEN [p EXCEPT !.bad = TRUE]
        ELSE [p EXCEPT !.min = m.n, !.value = m.rest]

\* case stdZeroSecond, with its special case: a fractional second in the
\* input is read although the layout has none
parseSecond(p) ==
    LET s  == getnum(p.value, TRUE)
        fl == fracLen(s.rest)
    IN  IF p.bad \/ s.err \/ 60 <= s.n THEN [p EXCEPT !.bad = TRUE]
        ELSE [p EXCEPT !.sec = s.n,
                       !.nsec = IF fl = 0 THEN 0 ELSE parseNanoseconds(s.rest, fl),
                       !.value = Drop(s.rest, fl)]

\* the end of time.Parse: no input may be left, and the day must exist
parseEnd(p) ==
    IF p.bad \/ Len(p.value) > 0 \/ p.day < 1 \/ p.day > daysIn(p.month, p.year)
    THEN [t |-> ZeroTime, err |-> ParseError]
    ELSE [t |-> [year |-> p.year, month |-> p.month, day |-> p.day, hour |-> p.hour,
                 min |-> p.min, sec |-> p.sec, nsec |-> p.nsec, loc |-> "UTC"],
          err |-> Nil]

\* time.Parse("20060102150405", value): the fields of the layout in order
time_Parse(value) ==
    parseEnd(parseSecond(parseMinute(parseHour(parseDay(parseMonth(parseYear(
        parseStart(value))))))))

RECURSIVE appendInt(_, _)
\* time.appendInt: x in decimal, zero-padded to width
appendInt(x, width) ==
    IF width = 0 THEN <<>>
    ELSE appendInt(x \div 10, width - 1) \o <<DigitChars[(x % 10) + 1]>>

\* Time.Format("20060102150405")
time_Format(t) ==
    appendInt(t.year, 4) \o appendInt(t.month, 2) \o appendInt(t.day, 2)
      \o appendInt(t.hour, 2) \o appendInt(t.min, 2) \o appendInt(t.sec, 2)

Quote == "\""

\* strings.ReplaceAll(string(bytes), `"`, "")
StripQuotes(bytes) == SelectSeq(bytes, LAMBDA ch : ch # Quote)

\* Timestamp.UnmarshalJSON: the new p.Time and the error returned
UnmarshalJSON(time, bytes) ==
    LET r == time_Parse(StripQuotes(bytes))
    IN  IF r.err # Nil THEN [time |-> time, err |-> r.err]
        ELSE [time |-> r.t, err |-> Nil]


-----------------------------------------------------------------------------
(* package net/url on the lexemes of the model.  No lexeme is a hex digit  *)
(* pair, so every "%" is an invalid escape; "%20" is the escape of " ".    *)

UrlError == [type |-> "url.Error", Op |-> "parse"]

\* url.unescape of a path
Unescape(s) == [i \in 1..Len(s) |-> IF s[i] = "%20" THEN " " ELSE s[i]]

\* url.escape of a path: a space may not stand in a path
Escape(s) == [i \in 1..Len(s) |-> IF s[i] = " " THEN "%20" ELSE s[i]]

\* url.Parse(rawURL): fails on an invalid escape, else scheme, host and path
\* with the path unescaped
url_Parse(rawURL) ==
    IF \E i \in 1..Len(rawURL) : rawURL[i] = "%"
    THEN [u |-> Nil, err |-> UrlError]
    ELSE [u |-> [Path |-> Unescape(rawURL)], err |-> Nil]

\* (*url.URL).String()
url_String(url) == Escape(url.Path)

-----------------------------------------------------------------------------
(* package api: constants and construction *)

endpoint_get_hash_chain_info == <<"/data_accounting/get_hash_chain_info/">>
endpoint_get_revision_hashes == <<"/data_accounting/get_revision_hashes/">>
endpoint_get_revision == <<"/data_accounting/get_revision/">>
endpoint_get_server_info == <<"/data_accounting/get_server_info">>

\* http.StatusOK
StatusOK == 200

Callers == {"c1", "c2"}

\* the arguments callers pass
Endpoints == {<<"http://h">>, <<"http://h", "/", "w">>, <<"%">>}
Tokens == {<<"t">>, <<>>}
IdTypes == {<<"genesis_hash">>, <<"title">>, <<"hash">>}
Ids == {<<"x">>, <<"x", " ", "y">>, <<"%">>}

NoCall == [op |-> "none", id_type |-> <<>>, id |-> <<>>]

\* the calls a caller can make
CallSet ==
    [op : {"GetHashChainInfo"}, id_type : IdTypes, id : Ids]
      \cup [op : {"GetRevisionHashes", "GetRevision"}, id_type : {<<>>}, id : Ids]
      \cup [op : {"GetServerInfo"}, id_type : {<<>>}, id : {<<>>}]

\* NewAPI(endpoint, token): the client and the error returned
NewAPI(endpoint, token) ==
    LET e == url_Parse(endpoint).err
    IN  IF e # Nil THEN [a |-> Nil, err |-> e]
        ELSE [a |-> [apiEndpoint |-> endpoint, authToken |-> token], err |-> Nil]

\* GetApiURL putting a slash of its own between endpoint and path
GetApiURL_ExtraSlash(a, path) == url_Parse(a.apiEndpoint \o <<"/">> \o path)

\* (a *AquaProtocol) GetApiURL(path)
GetApiURL(a, path) == url_Parse(a.apiEndpoint \o path)

-----------------------------------------------------------------------------
(* the transport: fetch *)

\* what the network does with one request: no response at all, or the
\* status line and headers of a response, its body left to be read
TransportFailure == [StatusCode |-> 0]
TransportError == [type |-> "url.Error", Op |-> "Get"]
ErrNot200 == [type |-> "errors.errorString", s |-> "Request Not 200 OK"]
ErrIdType == [type |-> "errors.errorString", s |-> "id_type must be genesis_hash or title"]

\* http.NewRequest(method, url, nil)
NewRequest(method, rawurl) ==
    LET p == url_Parse(rawurl)
    IN  IF p.err # Nil THEN [req |-> Nil, err |-> p.err]
        ELSE [req |-> [Method |-> method, URL |-> p.u, Header |-> <<>>], err |-> Nil]

\* the Authorization header value fetch adds
AuthHeader(a) == <<"Bearer">> \o a.authToken

\* the head of fetch: the GET request for u with the two headers added
fetchRequest(a, url) ==
    LET nr == NewRequest("GET", url_String(url))
    IN  IF nr.err # Nil THEN nr
        ELSE [req |-> [nr.req EXCEPT !.Header =
                         <<[key |-> "Content-Type", value |-> <<"application/json">>],
                           [key |-> "Authorization", value |-> AuthHeader(a)]>>],
              err |-> Nil]

\* fetch without its status check
fetch_NoStatusCheck(a, url, srv) ==
    LET r == fetchRequest(a, url)
    IN  IF r.err # Nil
        THEN [resp |-> Nil, err |-> r.err, sent |-> <<>>, ran |-> <<"get">>]
        ELSE IF srv = TransportFailure
        THEN [resp |-> Nil, err |-> TransportError, sent |-> <<r.req>>, ran |-> <<"get">>]
        ELSE [resp |-> srv, err |-> Nil, sent |-> <<r.req>>, ran |-> <<"get", "status">>]

\* fetch sending the request a second time after a transport failure
fetch_Retry(a, url, srv) ==
    LET r == fetchRequest(a, url)
    IN  IF r.err # Nil
        THEN [resp |-> Nil, err |-> r.err, sent |-> <<>>, ran |-> <<"get">>]
        ELSE IF srv = TransportFailure
        THEN [resp |-> Nil, err |-> TransportError, sent |-> <<r.req, r.req>>,
              ran |-> <<"get">>]
        ELSE IF srv.StatusCode # StatusOK
        THEN [resp |-> srv, err |-> ErrNot200, sent |-> <<r.req>>,
              ran |-> <<"get", "status">>]
        ELSE [resp |-> srv, err |-> Nil, sent |-> <<r.req>>, ran |-> <<"get", "status">>]

\* fetch losing the error of apiClient.Do
fetch_DropsTransportErr(a, url, srv) ==
    LET r == fetchRequest(a, url)
    IN  IF r.err # Nil
        THEN [resp |-> Nil, err |-> r.err, sent |-> <<>>, ran |-> <<"get">>]
        ELSE IF srv = TransportFailure
        THEN [resp |-> Nil, err |-> Nil, sent |-> <<r.req>>, ran |-> <<"get">>]
        ELSE IF srv.StatusCode # StatusOK
        THEN [resp |-> srv, err |-> ErrNot200, sent |-> <<r.req>>,
              ran |-> <<"get", "status">>]
        ELSE [resp |-> srv, err |-> Nil, sent |-> <<r.req>>, ran |-> <<"get", "status">>]

\* (a *AquaProtocol) fetch(u), srv being what the network does with the
\* request: the response and error returned, the requests handed to
\* apiClient.Do and the stages run
fetch(a, url, srv) ==
    LET r == fetchRequest(a, url)
    IN  IF r.err # Nil
        THEN [resp |-> Nil, err |-> r.err, sent |-> <<>>, ran |-> <<"get">>]
        ELSE IF srv = TransportFailure
        THEN [resp |-> Nil, err |-> TransportError, sent |-> <<r.req>>, ran |-> <<"get">>]
        ELSE IF srv.StatusCode # StatusOK
        THEN [resp |-> srv, err |-> ErrNot200, sent |-> <<r.req>>,
              ran |-> <<"get", "status">>]
        ELSE [resp |-> srv, err |-> Nil, sent |-> <<r.req>>, ran |-> <<"get", "status">>]

-----------------------------------------------------------------------------
(* the decoder: encoding/json on the response bodies of the model *)

\* time_stamp members of the bodies
GoodStamp == <<Quote, "2", "0", "2", "4", "0", "1", "1", "5", "0", "9", "3", "0", "0", "0",
               Quote>>
BadStamp == <<Quote, "2", "0", "2", "4", "1", "3", "1", "5", "0", "9", "3", "0", "0", "0",
              Quote>>

\* response bodies: not JSON at all; null; {} ; an object with every member
\* of the record asked for (its time_stamp member given); an array of hashes
Bodies ==
    {[kind |-> "syntax", populated |-> FALSE, time_stamp |-> <<>>],
     [kind |-> "null", populated |-> FALSE, time_stamp |-> <<>>],
     [kind |-> "object", populated |-> FALSE, time_stamp |-> <<>>],
     [kind |-> "object", populated |-> TRUE, time_stamp |-> GoodStamp],
     [kind |-> "object", populated |-> TRUE, time_stamp |-> BadStamp],
     [kind |-> "array", populated |-> TRUE, time_stamp |-> <<>>]}

StatusCodes == {StatusOK, 404}

\* what the network can do with a request
ServerBehaviours == {TransportFailure} \cup [StatusCode : StatusCodes]

SyntaxError == [type |-> "json.SyntaxError"]
UnmarshalTypeError == [type |-> "json.UnmarshalTypeError"]

\* the type each operation decodes into
TargetType(op) ==
    CASE op = "GetHashChainInfo" -> "RevisionInfo"
      [] op = "GetRevisionHashes" -> "[]*RevisionHash"
      [] op = "GetRevision" -> "Revision"
      [] op = "GetServerInfo" -> "ServerInfo"

\* new(T), and make([]*RevisionHash, 0)
NewValue(T) == [type |-> T, populated |-> FALSE, time_stamp |-> ZeroTime]

\* d.Decode(r) into a fresh value of type T: the value r holds afterwards
\* (Nil: a nil slice) and the error
Decode(T, body) ==
    IF body.kind = "syntax" THEN [val |-> NewValue(T), err |-> SyntaxError]
    ELSE IF T = "[]*RevisionHash"
    THEN CASE body.kind = "null" -> [val |-> Nil, err |-> Nil]
           [] body.kind = "array" ->
                [val |-> [NewValue(T) EXCEPT !.populated = TRUE], err |-> Nil]
           [] OTHER -> [val |-> NewValue(T), err |-> UnmarshalTypeError]
    ELSE CASE body.kind = "null" -> [val |-> NewValue(T), err |-> Nil]
           [] body.kind = "array" -> [val |-> NewValue(T), err |-> UnmarshalTypeError]
           [] OTHER ->
                IF ~body.populated THEN [val |-> NewValue(T), err |-> Nil]
                ELSE IF T # "Revision"
                THEN [val |-> [NewValue(T) EXCEPT !.populated = TRUE], err |-> Nil]
                ELSE LET ts == UnmarshalJSON(ZeroTime, body.time_stamp)
                     IN  IF ts.err # Nil
                         THEN [val |-> [NewValue(T) EXCEPT !.populated = TRUE],
                               err |-> ts.err]
                         ELSE [val |-> [NewValue(T) EXCEPT !.populated = TRUE,
                                                           !.time_stamp = ts.time],
                               err |-> Nil]

-----------------------------------------------------------------------------
(* the operations, one step per stage *)

Returned(val, err) == [outcome |-> "return", val |-> val, err |-> err, panic |-> ""]
Panicked(v) == [outcome |-> "panic", val |-> Nil, err |-> Nil, panic |-> v]

NoRet == [outcome |-> "none", val |-> Nil, err |-> Nil, panic |-> ""]

\* the path each operation hands to GetApiURL
PathOf(cl) ==
    CASE cl.op = "GetHashChainInfo" ->
             endpoint_get_hash_chain_info \o cl.id_type \o <<"/">> \o cl.id
      [] cl.op = "GetRevisionHashes" -> endpoint_get_revision_hashes \o cl.id
      [] cl.op = "GetRevision" -> endpoint_get_revision \o cl.id
      [] cl.op = "GetServerInfo" -> endpoint_get_server_info

\* the guard at the head of GetHashChainInfo
ValidIdType(id_type) == id_type = <<"genesis_hash">> \/ id_type = <<"title">>

\* a caller invokes an operation of the client
Invoke(c, cl) ==
    /\ ~aborted
    /\ client # Nil
    /\ pc[c] \in {"idle", "done"}
    /\ ncalls < MaxCalls
    /\ ncalls' = ncalls + 1
    /\ pc' = [pc EXCEPT ![c] = "entry"]
    /\ call' = [call EXCEPT ![c] = cl]
    /\ u' = [u EXCEPT ![c] = Nil]
    /\ resp' = [resp EXCEPT ![c] = Nil]
    /\ ret' = [ret EXCEPT ![c] = NoRet]
    /\ stages' = [stages EXCEPT ![c] = <<>>]
    /\ wire' = [wire EXCEPT ![c] = <<>>]
    /\ decoderIn' = [decoderIn EXCEPT ![c] = <<>>]
    /\ UNCHANGED <<aborted, client, newErr, given, tsVars>>

\* the operation ends
Finish(c, r) ==
    /\ pc' = [pc EXCEPT ![c] = "done"]
    /\ ret' = [ret EXCEPT ![c] = r]

\* the step below keeping the composed URL in the client
ComposeStep_KeepsURL(c, path) ==
    LET r == GetApiURL(client, path)
    IN  /\ stages' = [stages EXCEPT ![c] = Append(@, "compose")]
        /\ IF r.err # Nil
           THEN Finish(c, Returned(Nil, r.err)) /\ UNCHANGED <<u, client>>
           ELSE /\ u' = [u EXCEPT ![c] = r.u]
                /\ client' = [client EXCEPT !.apiEndpoint = @ \o path]
                /\ pc' = [pc EXCEPT ![c] = "composed"]
                /\ UNCHANGED ret
        /\ UNCHANGED <<aborted, newErr, given, call, resp, wire, decoderIn, ncalls, tsVars>>

\* u, err := a.GetApiURL(path); if err != nil { return nil, err }
ComposeStep(c, path) ==
    LET r == GetApiURL(client, path)
    IN  /\ stages' = [stages EXCEPT ![c] = Append(@, "compose")]
        /\ IF r.err # Nil
           THEN Finish(c, Returned(Nil, r.err)) /\ UNCHANGED u
           ELSE /\ u' = [u EXCEPT ![c] = r.u]
                /\ pc' = [pc EXCEPT ![c] = "composed"]
                /\ UNCHANGED ret
        /\ UNCHANGED <<aborted, client, newErr, given, call, resp, wire, decoderIn, ncalls, tsVars>>

\* resp, err := a.fetch(u); if err != nil { return nil, err }
FetchStep(c) ==
    /\ pc[c] = "composed"
    /\ \E srv \in ServerBehaviours :
         LET r == fetch(client, u[c], srv)
         IN  /\ stages' = [stages EXCEPT ![c] = @ \o r.ran]
             /\ wire' = [wire EXCEPT ![c] = @ \o r.sent]
             /\ resp' = [resp EXCEPT ![c] = r.resp]
             /\ IF r.err # Nil
                THEN Finish(c, Returned(Nil, r.err))
                ELSE pc' = [pc EXCEPT ![c] = "fetched"] /\ UNCHANGED ret
    /\ UNCHANGED <<aborted, client, newErr, given, call, u, decoderIn, ncalls, tsVars>>

\* d := json.NewDecoder(resp.Body); r := new(T); err = d.Decode(r);
\* if err != nil { return nil, err }; return r, nil
\* The decoder reads the body from the connection: what it holds shows here.
DecodeStep(c, T) ==
    /\ pc[c] = "fetched"
    /\ \E body \in Bodies :
         LET r == Decode(T, body)
         IN  /\ stages' = [stages EXCEPT ![c] = Append(@, "decode")]
             /\ decoderIn' = [decoderIn EXCEPT ![c] = Append(@, body)]
             /\ IF r.err # Nil
                THEN Finish(c, Returned(Nil, r.err))
                ELSE Finish(c, Returned(r.val, Nil))
    /\ UNCHANGED <<aborted, client, newErr, given, call, u, resp, wire, ncalls, tsVars>>

\* panic("wtf") unwinds the caller's goroutine: the caller recovers it, or
\* the process dies and every goroutine with it
GetHashChainInfo(c) ==
    /\ ~aborted
    /\ call[c].op = "GetHashChainInfo"
    /\ \/ /\ pc[c] = "entry"
          /\ IF ~ValidIdType(call[c].id_type)
             THEN /\ Finish(c, Panicked("wtf"))
                  /\ aborted' \in BOOLEAN
                  /\ UNCHANGED <<client, newErr, given, call, u, resp, stages, wire,
                                 decoderIn, ncalls, tsVars>>
             ELSE ComposeStep(c, PathOf(call[c]))
       \/ FetchStep(c)
       \/ DecodeStep(c, "RevisionInfo")

GetRevisionHashes(c) ==
    /\ ~aborted
    /\ call[c].op = "GetRevisionHashes"
    /\ \/ pc[c] = "entry" /\ ComposeStep(c, PathOf(call[c]))
       \/ FetchStep(c)
       \/ DecodeStep(c, "[]*RevisionHash")

GetRevision(c) ==
    /\ ~aborted
    /\ call[c].op = "GetRevision"
    /\ \/ pc[c] = "entry" /\ ComposeStep(c, PathOf(call[c]))
       \/ FetchStep(c)
       \/ DecodeStep(c, "Revision")

GetServerInfo(c) ==
    /\ ~aborted
    /\ call[c].op = "GetServerInfo"
    /\ \/ pc[c] = "entry" /\ ComposeStep(c, PathOf(call[c]))
       \/ FetchStep(c)
       \/ DecodeStep(c, "ServerInfo")

\* the caller constructs the client
Construct(endpoint, token) ==
    /\ client = Nil
    /\ LET r == NewAPI(endpoint, token)
       IN  client' = r.a /\ newErr' = r.err
    /\ given' = [endpoint |-> endpoint, token |-> token]
    /\ UNCHANGED <<pc, call, u, resp, ret, stages, wire, decoderIn, ncalls, aborted, tsVars>>

Init ==
    /\ client = Nil
    /\ newErr = Nil
    /\ given = [endpoint |-> <<>>, token |-> <<>>]
    /\ pc = [c \in Callers |-> "idle"]
    /\ call = [c \in Callers |-> NoCall]
    /\ u = [c \in Callers |-> Nil]
    /\ resp = [c \in Callers |-> Nil]
    /\ ret = [c \in Callers |-> NoRet]
    /\ stages = [c \in Callers |-> <<>>]
    /\ wire = [c \in Callers |-> <<>>]
    /\ decoderIn = [c \in Callers |-> <<>>]
    /\ ncalls = 0
    /\ aborted = FALSE
    /\ tsPc = "fresh"
    /\ tsBytes = <<>>
    /\ tsTime = ZeroTime
    /\ tsErr = Nil
    /\ tsOut = <<>>

-----------------------------------------------------------------------------
(* Timestamp decoding on its own: one target, decoded once, formatted back *)

YearsIn == {<<"2", "0", "2", "4">>, <<"2", "0", "2", "3">>, <<"2", "a", "2", "4">>}
MonthsIn == {<<"0", "1">>, <<"0", "2">>, <<"1", "3">>, <<"0", "0">>}
DaysIn == {<<"1", "5">>, <<"2", "9">>, <<"3", "0">>, <<"0", "0">>, <<"3", "2">>}
HoursIn == {<<"0", "9">>, <<"2", "3">>, <<"2", "4">>, <<"9">>}
MinutesIn == {<<"3", "0">>, <<"6", "0">>}
SecondsIn == {<<"0", "0">>, <<"5", "9">>, <<"6", "0">>, <<"0">>}

\* a period and n digits
Fraction(n) == [i \in 1..(n + 1) |-> IF i = 1 THEN "." ELSE "5"]

SuffixesIn == {<<>>, <<"5">>, <<".">>, <<"a">>} \cup {Fraction(n) : n \in 1..MaxFracDigits}

\* the contents of the JSON strings decoded
StampsIn ==
    {y \o mo \o d \o h \o mi \o s \o x :
        y \in YearsIn, mo \in MonthsIn, d \in DaysIn, h \in HoursIn, mi \in MinutesIn,
        s \in SecondsIn, x \in SuffixesIn}

\* the tokens the decoder hands to UnmarshalJSON: JSON strings, one of them
\* with an escaped quote inside, and the literals null and a number
TokensIn ==
    {<<Quote>> \o b \o <<Quote>> : b \in StampsIn}
      \cup {<<Quote, "2", "0", "2", "4", "\\", Quote, "0", "1", "1", "5", "0", "9", "3",
              "0", "0", "0", Quote>>,
            <<"n", "u", "l", "l">>,
            <<"2", "0", "2", "4", "0", "1", "1", "5", "0", "9", "3", "0", "0", "0">>}

\* the decoder calls p.UnmarshalJSON(bytes) on a fresh Timestamp
TsUnmarshal(bytes) ==
    /\ tsPc = "fresh"
    /\ LET r == UnmarshalJSON(tsTime, bytes)
       IN  tsTime' = r.time /\ tsErr' = r.err
    /\ tsBytes' = bytes
    /\ tsPc' = "decoded"
    /\ UNCHANGED <<tsOut, clientVars>>

\* the decoded Timestamp is written back in the layout it was read in
TsFormat ==
    /\ tsPc = "decoded"
    /\ tsErr = Nil
    /\ tsOut' = time_Format(tsTime)
    /\ tsPc' = "formatted"
    /\ UNCHANGED <<tsBytes, tsTime, tsErr, clientVars>>

\* the next record is decoded into a new Timestamp
TsNew ==
    /\ tsPc \in {"decoded", "formatted"}
    /\ tsPc' = "fresh"
    /\ tsBytes' = <<>>
    /\ tsTime' = ZeroTime
    /\ tsErr' = Nil
    /\ tsOut' = <<>>
    /\ UNCHANGED clientVars

Next ==
    \/ \E e \in Endpoints, t \in Tokens : Construct(e, t)
    \/ \E c \in Callers, cl \in CallSet : Invoke(c, cl)
    \/ \E c \in Callers : GetHashChainInfo(c)
    \/ \E c \in Callers : GetRevisionHashes(c)
    \/ \E c \in Callers : GetRevision(c)
    \/ \E c \in Callers : GetServerInfo(c)

Spec == Init /\ [][Next]_vars

NextTimestamp ==
    \/ \E bytes \in TokensIn : TsUnmarshal(bytes)
    \/ TsFormat
    \/ TsNew

SpecTimestamp == Init /\ [][NextTimestamp]_vars

-----------------------------------------------------------------------------
(* Properties *)

Done(c) == pc[c] = "done"
Non200(c) == resp[c] # Nil /\ resp[c].StatusCode # StatusOK
\* the values a request carries under a header key
HeaderOf(req, key) ==
    {req.Header[i].value : i \in {j \in 1..Len(req.Header) : req.Header[j].key = key}}

\* C1: GetHashChainInfo with an idType other than "genesis_hash" and "title"
\* returns an InvalidArgument error to its caller, does not abort, and issues
\* no request.
C1_BadIdTypeReturnsError ==
    \A c \in Callers :
        Done(c) /\ call[c].op = "GetHashChainInfo" /\ ~ValidIdType(call[c].id_type)
        => /\ ret[c].outcome = "return"
           /\ ret[c].err = ErrIdType
           /\ ret[c].val = Nil
           /\ ~aborted
           /\ wire[c] = <<>>

\* C2: when the response status is not 200 the operation returns an error and
\* a nil value, and the body is never handed to the JSON decoder.
C2_Non200IsErrorWithoutDecode ==
    \A c \in Callers :
        pc[c] \in {"fetched", "done"} /\ Non200(c)
        => /\ Done(c)
           /\ ret[c].outcome = "return"
           /\ ret[c].err # Nil
           /\ ret[c].val = Nil
           /\ decoderIn[c] = <<>>

C2_Witness ==
    \E c \in Callers :
        Done(c) /\ Non200(c) /\ ret[c].err = ErrNot200 /\ call[c].op = "GetRevision"

\* C3 as claimed: every call issues exactly one request, on every path
\* (stated here for the calls that return, a panic set aside).
C3_ExactlyOneRequest ==
    \A c \in Callers : Done(c) /\ ret[c].outcome = "return" => Len(wire[c]) = 1

\* C3 as amended: a call never hands more than one request to the HTTP client;
\* once ended it has handed over exactly one if its URL was composed and the
\* request built from it, and none otherwise (idType refused, URL not parsed).
C3_AtMostOneRequest ==
    \A c \in Callers :
        /\ Len(wire[c]) <= 1
        /\ pc[c] \in {"entry", "composed"} => wire[c] = <<>>
        /\ pc[c] = "fetched" => Len(wire[c]) = 1
        /\ Done(c) =>
             (Len(wire[c]) = 1
                <=> u[c] # Nil /\ NewRequest("GET", url_String(u[c])).err = Nil)

C3_Witness ==
    \E c \in Callers :
        /\ Done(c) /\ Len(wire[c]) = 1 /\ ret[c].err = TransportError
        /\ \E d \in Callers : Done(d) /\ wire[d] = <<>> /\ ret[d].err = UrlError

\* C4: an operation that returns gives either a nil error with a non-nil,
\* populated value, or an error with a nil value.
C4_ValueXorError ==
    \A c \in Callers :
        Done(c) /\ ret[c].outcome = "return"
        => \/ ret[c].err = Nil /\ ret[c].val # Nil /\ ret[c].val.populated
           \/ ret[c].err # Nil /\ ret[c].val = Nil

\* C5: every request carries Authorization: "Bearer" + " " + token and
\* Content-Type: application/json.
C5_BearerSpaceToken ==
    \A c \in Callers : \A i \in 1..Len(wire[c]) :
        /\ HeaderOf(wire[c][i], "Authorization") = {<<"Bearer", " ">> \o client.authToken}
        /\ HeaderOf(wire[c][i], "Content-Type") = {<<"application/json">>}

\* the path the interface gives each operation
C6_Path(cl) ==
    CASE cl.op = "GetHashChainInfo" ->
             <<"/data_accounting/get_hash_chain_info/">> \o cl.id_type \o <<"/">> \o cl.id
      [] cl.op = "GetRevisionHashes" -> <<"/data_accounting/get_revision_hashes/">> \o cl.id
      [] cl.op = "GetRevision" -> <<"/data_accounting/get_revision/">> \o cl.id
      [] cl.op = "GetServerInfo" -> <<"/data_accounting/get_server_info">>

\* C6 as claimed: the URL requested is exactly the base endpoint followed by
\* the operation's path, the method is GET.
C6_UrlIsConcatenation ==
    \A c \in Callers : \A i \in 1..Len(wire[c]) :
        /\ wire[c][i].Method = "GET"
        /\ url_String(wire[c][i].URL) = client.apiEndpoint \o C6_Path(call[c])

\* the characters that cannot stand in a URL path, percent-escaped
C6_Escaped(s) == [i \in 1..Len(s) |-> IF s[i] = " " THEN "%20" ELSE s[i]]

\* C6 as amended: the URL requested is the base endpoint followed by the
\* operation's path with the characters that cannot stand in a URL path
\* percent-escaped (so exactly that string when it has none); the method is
\* GET; GetHashChainInfo requests only for the two idTypes.
C6_UrlIsEscapedConcatenation ==
    \A c \in Callers : \A i \in 1..Len(wire[c]) :
        /\ wire[c][i].Method = "GET"
        /\ url_String(wire[c][i].URL)
             = C6_Escaped(client.apiEndpoint \o C6_Path(call[c]))
        /\ call[c].op = "GetHashChainInfo"
             => call[c].id_type \in {<<"genesis_hash">>, <<"title">>}

C6_Witness ==
    \E c \in Callers :
        /\ Len(wire[c]) = 1
        /\ call[c].op = "GetHashChainInfo" /\ call[c].id = <<"x", " ", "y">>
        /\ \E d \in Callers : Len(wire[d]) = 1 /\ call[d].op = "GetServerInfo"

\* C7: after a status other than 200 the error the caller gets carries the
\* status of the response.
C7_ErrorCarriesStatus ==
    \A c \in Callers :
        Done(c) /\ Non200(c)
        => /\ "StatusCode" \in DOMAIN ret[c].err
           /\ ret[c].err.StatusCode = resp[c].StatusCode

\* a JSON string token, and what stands between its quotes
C8_IsString(bytes) == Len(bytes) >= 2 /\ bytes[1] = Quote /\ bytes[Len(bytes)] = Quote
C8_Inner(bytes) == SubSeq(bytes, 2, Len(bytes) - 1)
C8_Field(b, from, to) == Num(SubSeq(b, from, to))

\* 14 decimal digits YYYYMMDDHHMMSS naming a date and time that exist
C8_Valid(b) ==
    /\ Len(b) = 14
    /\ \A i \in 1..14 : b[i] \in Digits
    /\ C8_Field(b, 5, 6) \in 1..12
    /\ C8_Field(b, 7, 8) \in 1..daysIn(C8_Field(b, 5, 6), C8_Field(b, 1, 4))
    /\ C8_Field(b, 9, 10) \in 0..23
    /\ C8_Field(b, 11, 12) \in 0..59
    /\ C8_Field(b, 13, 14) \in 0..59

C8_Instant(b) ==
    [year |-> C8_Field(b, 1, 4), month |-> C8_Field(b, 5, 6), day |-> C8_Field(b, 7, 8),
     hour |-> C8_Field(b, 9, 10), min |-> C8_Field(b, 11, 12),
     sec |-> C8_Field(b, 13, 14), nsec |-> 0, loc |-> "UTC"]

\* C8: a JSON string token is accepted exactly when its contents are 14
\* digits naming a valid date and time, and then yields that instant in UTC;
\* any other token fails and leaves the target unset; formatting a decoded
\* Timestamp back gives the 14 digits it was decoded from.
C8_TimestampExact ==
    tsPc # "fresh" /\ C8_IsString(tsBytes)
    => /\ (tsErr = Nil) <=> C8_Valid(C8_Inner(tsBytes))
       /\ tsErr = Nil => tsTime = C8_Instant(C8_Inner(tsBytes))
       /\ tsErr # Nil => tsTime = ZeroTime
       /\ tsPc = "formatted" => tsOut = C8_Inner(tsBytes)

\* an operation run with no other call in progress, given what the network
\* did with its request and the body it sent
RunAlone(a, cl, srv, body) ==
    IF cl.op = "GetHashChainInfo" /\ ~ValidIdType(cl.id_type)
    THEN [wire |-> <<>>, ret |-> Panicked("wtf")]
    ELSE IF GetApiURL(a, PathOf(cl)).err # Nil
    THEN [wire |-> <<>>, ret |-> Returned(Nil, GetApiURL(a, PathOf(cl)).err)]
    ELSE IF fetch(a, GetApiURL(a, PathOf(cl)).u, srv).err # Nil
    THEN [wire |-> fetch(a, GetApiURL(a, PathOf(cl)).u, srv).sent,
          ret |-> Returned(Nil, fetch(a, GetApiURL(a, PathOf(cl)).u, srv).err)]
    ELSE [wire |-> fetch(a, GetApiURL(a, PathOf(cl)).u, srv).sent,
          ret |-> IF Decode(TargetType(cl.op), body).err # Nil
                  THEN Returned(Nil, Decode(TargetType(cl.op), body).err)
                  ELSE Returned(Decode(TargetType(cl.op), body).val, Nil)]

C9_Srv(c) == IF resp[c] # Nil THEN resp[c] ELSE TransportFailure
C9_Body(c) == IF decoderIn[c] # <<>> THEN decoderIn[c][1] ELSE CHOOSE b \in Bodies : TRUE

\* the client as NewAPI built it from what it was given
C9_Built == [apiEndpoint |-> given.endpoint, authToken |-> given.token]

\* C9: once NewAPI has returned a client its endpoint and token stay the
\* values given at construction, and under every interleaving of calls each
\* call sends the request and returns the result it would have run alone on
\* that client.
C9_ClientImmutable ==
    client # Nil =>
        /\ client = C9_Built
        /\ \A c \in Callers :
             /\ pc[c] \in {"composed", "fetched"}
                  => u[c] = GetApiURL(C9_Built, PathOf(call[c])).u
             /\ pc[c] = "fetched" => wire[c] = fetch(C9_Built, u[c], resp[c]).sent
             /\ Done(c) =>
                  /\ wire[c] = RunAlone(C9_Built, call[c], C9_Srv(c), C9_Body(c)).wire
                  /\ ret[c] = RunAlone(C9_Built, call[c], C9_Srv(c), C9_Body(c)).ret

C9_Witness ==
    /\ pc["c1"] = "composed" /\ pc["c2"] = "fetched"
    /\ call["c1"] # call["c2"]

StageOrder == <<"compose", "get", "status", "decode">>
IsPrefix(s, t) == Len(s) <= Len(t) /\ s = SubSeq(t, 1, Len(s))

\* the errors a stage can end the operation with
C10_ErrorsOf(stage) ==
    CASE stage = "compose" -> {UrlError}
      [] stage = "get" -> {UrlError, TransportError}
      [] stage = "status" -> {ErrNot200}
      [] stage = "decode" -> {SyntaxError, UnmarshalTypeError, ParseError}

\* C10: the stages run in the order compose, get, status, decode; a stage
\* starts only after the earlier ones succeeded, and the first that fails
\* ends the operation with its error, no later stage having run.
C10_StagesInOrder ==
    \A c \in Callers :
        /\ IsPrefix(stages[c], StageOrder)
        /\ pc[c] = "composed" => stages[c] = <<"compose">> /\ u[c] # Nil
        /\ pc[c] = "fetched" =>
             /\ stages[c] = <<"compose", "get", "status">>
             /\ resp[c] # Nil /\ resp[c].StatusCode = StatusOK
        /\ Len(stages[c]) >= 2 => u[c] # Nil
        /\ Len(stages[c]) >= 3 => Len(wire[c]) = 1 /\ resp[c] # Nil
        /\ Len(stages[c]) = 4 => resp[c].StatusCode = StatusOK
        /\ u[c] = Nil => wire[c] = <<>>
        /\ Len(stages[c]) < 4 => decoderIn[c] = <<>>
        /\ Done(c) /\ ret[c].outcome = "return" =>
             IF ret[c].err = Nil THEN stages[c] = StageOrder
             ELSE /\ stages[c] # <<>>
                  /\ ret[c].err \in C10_ErrorsOf(stages[c][Len(stages[c])])
                  /\ ret[c].val = Nil

C10_Witness ==
    \E c \in Callers :
        /\ Done(c) /\ stages[c] = StageOrder /\ ret[c].err = SyntaxError
        /\ \E d \in Callers : Done(d) /\ stages[d] = <<"compose", "get">>

=============================================================================
